---- MODULE Spec2Model ----
(***************************************************************************)
(* plot_manager.py of chia_plot_manager: one invocation of main() selects  *)
(* a harvester, checks whether a transfer is running, takes the marker     *)
(* file lock, runs send_plot.sh, verifies the remote size and removes the  *)
(* source plot.  The script is started by a scheduler, so invocations      *)
(* follow each other (and two may overlap) on the same producer host.      *)
(***************************************************************************)
EXTENDS Integers, Sequences, FiniteSets, TLC

\* ------------------------------------------------------------- bounds
\* main() re-enters itself (lines 147 and 205): at most MaxDepth suspended
\* frames of main() below the running one.
MaxDepth == 1
\* transfers counts the runs of send_plot.sh up to MaxTransfers: that many
\* or more.
MaxTransfers == 2

\* ---------------------------------------------------------- constants
\* plot_size (line 66), in GB: 108644374730 bytes does not fit TLC's integers.
plot_size == 108
\* check_transfer (line 244): a speed below 5 (MB/s) is no transfer.
min_speed == 5
\* check_transfer (line 243): tx counter / 1000000.
tx_divisor == 1000000
\* `testing` (line 57).
testing == FALSE

\* The harvesters a configuration can name.
Hosts == {"h1", "h2", "h3"}
\* values of total_plots_until_full in an export file (line 400).
Caps == {40, 90}

\* The *.plot files that may lie in plot_dir and their st_size, in GB
\* (line 116): plot-b is a partially written file.
Plots == {"plot-a", "plot-b", "plot-c"}
st_size(f) == IF f = "plot-b" THEN 1 ELSE 120
\* what `ls -al | awk {print $5}` can print for the remote copy (line 221).
RemoteSizes == {108, 120}
\* data[network_interface][0]['tx'] as glances reports it (line 243).
TxValues == {0, 5000000, 50000000}

\* The invoking processes: the scheduler's invocation, and one overlapping it.
Procs == {1, 2}

VARIABLES
  remote_harvesters,\* chiaplot.remote_harvesters (line 352), in the file's order
  pc,               \* per process: the statement the running frame is at
  stack,            \* per process: the suspended frames of main()
  frame,            \* per process: the locals of the running process_plot()
  exc,              \* per process: the exception that ended the invocation
  nas_server,       \* per process: the global nas_server (line 83)
  harvesters_check, \* per process: check_remote_harvesters()'s dict (line 351)
  servers,          \* per process: remote_harvester_report()'s exports
  obs,              \* per process: what check_status read (lines 191, 194)
  notified,         \* per process: what this invocation called notify() with
  transfers,        \* per process: how often this invocation ran send_plot.sh (line 136)
                    \* (counted up to MaxTransfers)
  status_file,      \* the local marker file exists (line 67)
  remote_checkfile, \* per harvester: the remote marker exists (line 101)
  new_plot_received,\* per harvester: the plot-received file exists (line 230)
  plot_dir,         \* the *.plot files in plot_dir (line 65)
  nc_stray          \* an nc process not started by a running send_plot.sh

vars == <<remote_harvesters, pc, stack, frame, exc, nas_server, harvesters_check, servers, obs,
          notified, transfers, status_file, remote_checkfile, new_plot_received, plot_dir,
          nc_stray>>

\* the files and processes outside a process's own memory
files == <<status_file, remote_checkfile, new_plot_received, plot_dir>>
\* the locals of the harvester selection
selection == <<harvesters_check, servers>>
\* what no statement of the script changes
config == <<remote_harvesters>>

\* The locals of process_plot() before any of them is bound, and whether an
\* ssh command of the job has failed and was only logged (log.warning,
\* lines 179, 186 and 232).
NoFrame == [plot |-> "none", rc |-> -1, remote_plot_size |-> -1, warned |-> FALSE]

\* What check_status has read so far: nc running (1/0) and the tx counter at
\* the first (line 191) and the second (line 194) evaluation (-1 is not read),
\* and what it made of them: InProgress is `return True`, Clear is `return
\* False` and Zombie is the branch of lines 195-205.
NoObs == [nc1 |-> -1, tx1 |-> -1, nc2 |-> -1, tx2 |-> -1, cls |-> "none"]

\* harvesters_check before check_remote_harvesters has filled it.
NoCheck == [h \in {} |-> FALSE]

\* The lists of distinct harvesters a configuration file can hold.
HarvesterLists ==
  {l \in UNION {[1..n -> Hosts] : n \in 0..Cardinality(Hosts)} :
     \A i, j \in DOMAIN l : i # j => l[i] # l[j]}

\* ------------------------------------------------------- pure functions

\* get_list_of_plots (line 116): the plots whose size exceeds plot_size.
plot_to_process_list(dir) == {f \in dir : st_size(f) > plot_size}

\* check_transfer with a threshold of 100 instead of 5.
check_transfer_100(tx) == ~(tx < 100 * tx_divisor)

\* check_transfer (lines 243-247): TRUE iff tx/1000000 is not below 5.
check_transfer(tx) == ~(tx < min_speed * tx_divisor)

RECURSIVE InsertDesc(_, _)
\* one insertion of Python's stable sort on total_plots_until_full with
\* reverse=True: e came before every element of s, so it stays before its equals.
InsertDesc(e, s) ==
  IF s = <<>> THEN <<e>>
  ELSE IF Head(s).total_plots_until_full <= e.total_plots_until_full
       THEN <<e>> \o s
       ELSE <<Head(s)>> \o InsertDesc(e, Tail(s))

RECURSIVE InsertAsc(_, _)
\* one insertion of the same stable sort without reverse=True.
InsertAsc(e, s) ==
  IF s = <<>> THEN <<e>>
  ELSE IF e.total_plots_until_full <= Head(s).total_plots_until_full
       THEN <<e>> \o s
       ELSE <<Head(s)>> \o InsertAsc(e, Tail(s))

RECURSIVE sorted_no_reverse(_)
\* sorted() without reverse=True: ascending.
sorted_no_reverse(s) ==
  IF s = <<>> THEN <<>> ELSE InsertAsc(Head(s), sorted_no_reverse(Tail(s)))

RECURSIVE sorted_reverse(_)
\* sorted(next_nas, key=lambda i: i['total_plots_until_full'], reverse=True)
sorted_reverse(s) ==
  IF s = <<>> THEN <<>> ELSE InsertDesc(Head(s), sorted_reverse(Tail(s)))

\* get_next_nas (lines 397-403) on the exports of the live harvesters;
\* "IndexError" stands for [][0] on the empty list.
get_next_nas(srv) ==
  IF srv = <<>> THEN "IndexError" ELSE sorted_reverse(srv)[1].server

RECURSIVE alive_hosts(_, _)
\* check_remote_harvesters (line 357): the hosts of list s that dict chk holds
\* alive, in the order of s.
alive_hosts(s, chk) ==
  IF s = <<>> THEN <<>>
  ELSE (IF chk[Head(s)] THEN <<Head(s)>> ELSE <<>>) \o alive_hosts(Tail(s), chk)

\* verify_plot_move without the quit() of line 224: the failed query is
\* logged and the comparison goes on without a remote size.
verify_result_no_quit(query, remote_plot_size, local_plot_size) ==
  CASE query = "ValueError" -> "ValueError"
    [] OTHER -> IF remote_plot_size = local_plot_size THEN "True" ELSE "False"

\* verify_plot_move (lines 220-236): what becomes of the answer to the size
\* query: quit() on CalledProcessError, int()'s ValueError, or the comparison.
verify_result(query, remote_plot_size, local_plot_size) ==
  CASE query = "CalledProcessError" -> "quit"
    [] query = "ValueError" -> "ValueError"
    [] OTHER -> IF remote_plot_size = local_plot_size THEN "True" ELSE "False"

\* ---------------------------------------------------------------- Init

InitShared ==
  /\ stack = [p \in Procs |-> <<>>]
  /\ frame = [p \in Procs |-> NoFrame]
  /\ exc = [p \in Procs |-> "none"]
  /\ nas_server = [p \in Procs |-> "none"]
  /\ harvesters_check = [p \in Procs |-> NoCheck]
  /\ servers = [p \in Procs |-> <<>>]
  /\ obs = [p \in Procs |-> NoObs]
  /\ notified = [p \in Procs |-> {}]
  /\ transfers = [p \in Procs |-> 0]
  /\ status_file = FALSE
  /\ remote_checkfile = [h \in Hosts |-> FALSE]
  /\ new_plot_received = [h \in Hosts |-> FALSE]
  /\ nc_stray = FALSE

\* One invoking process; the staging directory holds the plot that is being
\* written (it never exceeds plot_size, line 116) and any of the finished ones.
Init ==
  /\ InitShared
  /\ remote_harvesters = <<"h1", "h2">>
  /\ pc = [p \in Procs |-> IF p = 1 THEN "idle" ELSE "off"]
  /\ plot_dir \in {d \in SUBSET Plots : "plot-b" \in d}

\* ------------------------------------------------------------ helpers

\* An uncaught exception (or SystemExit) ends the invocation: every frame
\* of main() is unwound.
Raise(p, e) ==
  /\ pc' = [pc EXCEPT ![p] = "halted"]
  /\ exc' = [exc EXCEPT ![p] = e]
  /\ stack' = [stack EXCEPT ![p] = <<>>]

Goto(p, l) ==
  /\ pc' = [pc EXCEPT ![p] = l]
  /\ UNCHANGED <<exc, stack>>

\* the harvesters of the configuration
Configured == {remote_harvesters[i] : i \in DOMAIN remote_harvesters}

\* checkIfProcessRunning('nc') (lines 253-265): an nc process exists on the
\* producer: a stray one, or the one a running send_plot.sh started.
checkIfProcessRunning ==
  nc_stray \/ \E q \in Procs : pc[q] = "sending"

\* host_check failed, and exit() without the notify() of line 213.
offline_no_notify(p) ==
  /\ UNCHANGED notified
  /\ Raise(p, "exit_offline")

\* process_control, lines 211-214: host_check failed.
offline(p) ==
  /\ notified' = [notified EXCEPT ![p] = @ \cup {<<"OFFLINE", nas_server[p]>>}]
  /\ Raise(p, "exit_offline")

\* main() returns to its caller: to the scheduler, to line 148 (after the
\* retry of line 147) or into process_control, which then returns None to
\* line 129 (after the main() of line 205).
Return(p) ==
  IF stack[p] = <<>>
  THEN /\ pc' = [pc EXCEPT ![p] = "done"]
       /\ UNCHANGED <<stack, frame>>
  ELSE LET top == stack[p][Len(stack[p])] IN
       /\ pc' = [pc EXCEPT ![p] = top.ret]
       /\ frame' = [frame EXCEPT ![p] = top.frame]
       /\ stack' = [stack EXCEPT ![p] = SubSeq(stack[p], 1, Len(stack[p]) - 1)]

\* A call of main() whose caller goes on at ret: the caller's frame is suspended.
Call(p, ret) ==
  /\ Len(stack[p]) < MaxDepth
  /\ stack' = [stack EXCEPT ![p] = Append(stack[p], [ret |-> ret, frame |-> frame[p]])]
  /\ frame' = [frame EXCEPT ![p] = NoFrame]
  /\ pc' = [pc EXCEPT ![p] = "main"]

\* ------------------------------------------------------------- actions

\* The scheduler starts the script (line 475).
Start(p) ==
  /\ pc[p] \in {"idle", "done", "halted"}
  /\ pc' = [pc EXCEPT ![p] = "main"]
  /\ stack' = [stack EXCEPT ![p] = <<>>]
  /\ frame' = [frame EXCEPT ![p] = NoFrame]
  /\ exc' = [exc EXCEPT ![p] = "none"]
  /\ nas_server' = [nas_server EXCEPT ![p] = "none"]
  /\ notified' = [notified EXCEPT ![p] = {}]
  /\ transfers' = [transfers EXCEPT ![p] = 0]
  /\ UNCHANGED config
  /\ UNCHANGED <<selection, obs, files, nc_stray>>

\* main, line 465: verify_glances_is_running (lines 278-285).
verify_glances_is_running(p) ==
  /\ pc[p] = "main"
  /\ \E glances \in BOOLEAN :
       IF glances THEN Goto(p, "system_checks") ELSE Raise(p, "exit_glances")
  /\ UNCHANGED <<config, transfers>>
  /\ UNCHANGED <<frame, nas_server, selection, obs, notified, files, nc_stray>>

\* main, line 466: system_checks (lines 455-461) calls
\* check_temp_drive_utilization (lines 406-428) and
\* check_dst_drive_utilization (lines 430-452).  The utilisation figures and
\* the alert flags belong to PlotManager; the outcomes are the notifications
\* of lines 419-450 and the NameError of line 416 (chianas is not defined).
system_checks(p) ==
  /\ pc[p] = "system_checks"
  /\ \E out \in {"ok", "Directory Utilization", "NameError"} :
       CASE out = "ok" ->
              Goto(p, "remote_harvesters_check") /\ UNCHANGED notified
         [] out = "NameError" ->
              Raise(p, "NameError") /\ UNCHANGED notified
         [] OTHER ->
              /\ Goto(p, "remote_harvesters_check")
              /\ notified' = [notified EXCEPT ![p] = @ \cup {<<"WARNING", out>>}]
  /\ UNCHANGED <<config, transfers>>
  /\ UNCHANGED <<frame, nas_server, selection, obs, files, nc_stray>>

\* remote_harvesters_check -> get_next_nas -> remote_harvester_report
\* (lines 85, 397, 361-374): host_check of every configured harvester
\* (lines 351-358), then the export of every live one.  get_remote_exports
\* raises when the session or the remote file fails (lines 381-388).
remote_harvester_report(p) ==
  /\ pc[p] = "remote_harvesters_check"
  /\ \E chk \in [Configured -> BOOLEAN], cap \in [Configured -> Caps],
        fetched \in BOOLEAN :
       LET hosts == alive_hosts(remote_harvesters, chk) IN
       /\ \A h \in Configured : ~chk[h] => cap[h] = 40
       /\ IF fetched
          THEN /\ harvesters_check' = [harvesters_check EXCEPT ![p] = chk]
               /\ servers' = [servers EXCEPT ![p] =
                    [i \in 1..Len(hosts) |->
                       [server |-> hosts[i], total_plots_until_full |-> cap[hosts[i]]]]]
               /\ Goto(p, "get_next_nas")
          ELSE /\ hosts # <<>>
               /\ cap = [h \in Configured |-> 40]
               /\ Raise(p, "SSHException")
               /\ UNCHANGED selection
  /\ UNCHANGED <<config, transfers>>
  /\ UNCHANGED <<frame, nas_server, obs, notified, files, nc_stray>>

\* get_next_nas, lines 398-403, and remote_harvesters_check, lines 85-89.
select_next_nas(p) ==
  /\ pc[p] = "get_next_nas"
  /\ LET nas == get_next_nas(servers[p]) IN
       IF nas = "IndexError"
       THEN Raise(p, "IndexError") /\ UNCHANGED nas_server
       ELSE Goto(p, "process_plot") /\ nas_server' = [nas_server EXCEPT ![p] = nas]
  /\ UNCHANGED <<config, transfers>>
  /\ UNCHANGED <<frame, selection, obs, notified, files, nc_stray>>

\* process_plot, line 129: process_control('check_status', 0), lines 168 and
\* 190-193: host_check, then the first evaluation of
\* checkIfProcessRunning('nc') and check_transfer().  check_transfer exits on
\* URLError (lines 248-250); -1 is the tx of a failed query.
check_status(p) ==
  /\ pc[p] = "process_plot"
  /\ harvesters_check' = [harvesters_check EXCEPT ![p] = NoCheck]
  /\ servers' = [servers EXCEPT ![p] = <<>>]
  /\ \E up \in BOOLEAN :
       IF ~up
       THEN offline(p) /\ UNCHANGED obs
       ELSE IF ~checkIfProcessRunning
       THEN /\ obs' = [obs EXCEPT ![p] = [NoObs EXCEPT !.nc1 = 0]]
            /\ Goto(p, "check_status_elif")
            /\ UNCHANGED notified
       ELSE \E tx \in TxValues \cup {-1} :
              IF tx = -1
              THEN Raise(p, "exit_urlerror") /\ UNCHANGED <<obs, notified>>
              ELSE /\ obs' = [obs EXCEPT ![p] =
                        [NoObs EXCEPT !.nc1 = 1, !.tx1 = tx,
                           !.cls = IF check_transfer(tx) THEN "InProgress" ELSE "none"]]
                   /\ Goto(p, IF check_transfer(tx) THEN "busy" ELSE "check_status_elif")
                   /\ UNCHANGED notified
  /\ UNCHANGED <<config, transfers>>
  /\ UNCHANGED <<frame, nas_server, files, nc_stray>>

\* process_control, lines 194 and 206-208: the second evaluation of
\* checkIfProcessRunning('nc') and check_transfer().
check_status_elif(p) ==
  /\ pc[p] = "check_status_elif"
  /\ IF ~checkIfProcessRunning
     THEN /\ obs' = [obs EXCEPT ![p].nc2 = 0, ![p].cls = "Clear"]
          /\ Goto(p, "get_list_of_plots")
     ELSE \E tx \in TxValues \cup {-1} :
            IF tx = -1
            THEN Raise(p, "exit_urlerror") /\ UNCHANGED obs
            ELSE /\ obs' = [obs EXCEPT ![p].nc2 = 1, ![p].tx2 = tx,
                      ![p].cls = IF check_transfer(tx) THEN "Clear" ELSE "Zombie"]
                 /\ Goto(p, IF check_transfer(tx) THEN "get_list_of_plots" ELSE "zombie_rm")
  /\ UNCHANGED <<config, transfers>>
  /\ UNCHANGED <<frame, nas_server, selection, notified, files, nc_stray>>

\* check_status returned True and the marker is removed before returning.
busy_removes_marker(p) ==
  /\ pc[p] = "busy"
  /\ Return(p)
  /\ status_file' = FALSE
  /\ UNCHANGED <<config, transfers, exc, nas_server, selection, obs, notified,
                 remote_checkfile, new_plot_received, plot_dir, nc_stray>>

\* process_plot, lines 155-156, then main returns: check_status returned True.
busy(p) ==
  /\ pc[p] = "busy"
  /\ Return(p)
  /\ UNCHANGED <<config, transfers>>
  /\ UNCHANGED <<exc, nas_server, selection, obs, notified, files, nc_stray>>

\* process_control, lines 196-199: ssh rm of the remote marker; a failure is logged.
zombie_rm(p) ==
  /\ pc[p] = "zombie_rm"
  /\ \E ssh \in BOOLEAN :
       remote_checkfile' = IF ssh THEN [remote_checkfile EXCEPT ![nas_server[p]] = FALSE]
                           ELSE remote_checkfile
  /\ Goto(p, "zombie_kill")
  /\ UNCHANGED <<config, transfers>>
  /\ UNCHANGED <<frame, nas_server, selection, obs, notified, status_file,
                 new_plot_received, plot_dir, nc_stray>>

\* process_control, lines 200-204: kill_nc.sh on the harvester, which ends
\* the receiving nc processes there.
zombie_kill(p) ==
  /\ pc[p] = "zombie_kill"
  /\ Goto(p, "zombie_main")
  /\ UNCHANGED <<config, transfers>>
  /\ UNCHANGED <<frame, nas_server, selection, obs, notified, files, nc_stray>>

\* process_control, line 205: main(); process_control then falls off its end
\* and process_plot goes on at line 130.
zombie_main(p) ==
  /\ pc[p] = "zombie_main"
  /\ Call(p, "get_list_of_plots")
  /\ obs' = [obs EXCEPT ![p] = NoObs]
  /\ UNCHANGED <<config, transfers>>
  /\ UNCHANGED <<exc, nas_server, selection, notified, files, nc_stray>>

\* process_plot, lines 130-131 and 151-154: get_list_of_plots (lines 113-121)
\* returns the first qualifying plot of the glob, in the directory's order.
get_list_of_plots(p) ==
  /\ pc[p] = "get_list_of_plots"
  /\ LET found == plot_to_process_list(plot_dir) IN
       IF found # {} /\ ~testing
       THEN /\ \E f \in found : frame' = [frame EXCEPT ![p].plot = f]
            /\ Goto(p, "set_status_start")
       ELSE Return(p) /\ UNCHANGED exc
  /\ obs' = [obs EXCEPT ![p] = NoObs]
  /\ UNCHANGED <<config, transfers>>
  /\ UNCHANGED <<nas_server, selection, notified, files, nc_stray>>

\* set_status start without the isfile test of line 171: the marker is
\* created and touched again.
after_isfile_always_open(exists) == "os_open"

\* process_control('set_status', 'start'), lines 168-173: where process_plot
\* goes on after host_check passed.  process_control returns None whether or
\* not the marker exists, and line 133 follows either way.
after_isfile(exists) == IF exists THEN "send_plot" ELSE "os_open"

\* process_plot, line 132: process_control('set_status', 'start').
set_status_start(p) ==
  /\ pc[p] = "set_status_start"
  /\ \E up \in BOOLEAN :
       IF ~up THEN offline(p)
       ELSE Goto(p, after_isfile(status_file)) /\ UNCHANGED notified
  /\ UNCHANGED <<config, transfers>>
  /\ UNCHANGED <<frame, nas_server, selection, obs, files, nc_stray>>

\* process_control, line 175: os.open(status_file, os.O_CREAT).
os_open(p) ==
  /\ pc[p] = "os_open"
  /\ status_file' = TRUE
  /\ Goto(p, "ssh_touch")
  /\ UNCHANGED <<config, transfers>>
  /\ UNCHANGED <<frame, nas_server, selection, obs, notified, remote_checkfile,
                 new_plot_received, plot_dir, nc_stray>>

\* process_control, lines 176-179: ssh touch of the remote marker; a failure is logged.
ssh_touch(p) ==
  /\ pc[p] = "ssh_touch"
  /\ \E ssh \in BOOLEAN :
       /\ remote_checkfile' = IF ssh THEN [remote_checkfile EXCEPT ![nas_server[p]] = TRUE]
                              ELSE remote_checkfile
       /\ frame' = [frame EXCEPT ![p].warned = @ \/ ~ssh]
  /\ Goto(p, "send_plot")
  /\ UNCHANGED <<config, transfers>>
  /\ UNCHANGED <<nas_server, selection, obs, notified, status_file,
                 new_plot_received, plot_dir, nc_stray>>

\* process_plot, lines 133-136: send_plot.sh is started; it runs nc.
send_plot(p) ==
  /\ pc[p] = "send_plot"
  /\ Goto(p, "sending")
  /\ transfers' = [transfers EXCEPT ![p] = IF @ < MaxTransfers THEN @ + 1 ELSE @]
  /\ UNCHANGED config
  /\ UNCHANGED <<frame, nas_server, selection, obs, notified, files, nc_stray>>

\* send_plot.sh returns and the remote cleanup of lines 137-141 is only done
\* after exit status 0.
sending_skips_cleanup(p) ==
  /\ pc[p] = "sending"
  /\ \E rc \in {0, 1} :
       /\ frame' = [frame EXCEPT ![p].rc = rc]
       /\ Goto(p, IF rc = 0 THEN "kill_nc" ELSE "verify_plot_move")
  /\ UNCHANGED <<config, transfers>>
  /\ UNCHANGED <<nas_server, selection, obs, notified, files, nc_stray>>

\* process_plot, line 136: send_plot.sh returns; subprocess.call's result is
\* dropped.
sending(p) ==
  /\ pc[p] = "sending"
  /\ \E rc \in {0, 1} : frame' = [frame EXCEPT ![p].rc = rc]
  /\ Goto(p, "kill_nc")
  /\ UNCHANGED <<config, transfers>>
  /\ UNCHANGED <<nas_server, selection, obs, notified, files, nc_stray>>

\* process_plot, lines 137-141: kill_nc.sh on the harvester.
kill_nc(p) ==
  /\ pc[p] = "kill_nc"
  /\ Goto(p, "verify_plot_move")
  /\ UNCHANGED <<config, transfers>>
  /\ UNCHANGED <<frame, nas_server, selection, obs, notified, files, nc_stray>>

\* process_plot, line 142: verify_plot_move, lines 217-236.  The query
\* fails, prints nothing int() can read, or prints a size (remote_plot_size
\* stays unbound, -1, unless it does).  os.path.getsize raises when the plot
\* is gone; on equal sizes new_plot_received is touched (a failure is logged).
verify_plot_move(p) ==
  /\ pc[p] = "verify_plot_move"
  /\ \E query \in {"CalledProcessError", "ValueError", "size"},
        remote_plot_size \in RemoteSizes \cup {-1} :
       LET res == verify_result(query, remote_plot_size, st_size(frame[p].plot)) IN
       /\ (query = "size") = (remote_plot_size # -1)
       /\ IF res \in {"quit", "ValueError"}
          THEN /\ Raise(p, res)
               /\ frame' = [frame EXCEPT ![p].remote_plot_size = remote_plot_size]
               /\ UNCHANGED new_plot_received
          ELSE IF frame[p].plot \notin plot_dir
          THEN /\ Raise(p, "FileNotFoundError")
               /\ frame' = [frame EXCEPT ![p].remote_plot_size = remote_plot_size]
               /\ UNCHANGED new_plot_received
          ELSE IF res = "True"
          THEN /\ \E ssh \in BOOLEAN :
                    /\ new_plot_received' =
                         IF ssh THEN [new_plot_received EXCEPT ![nas_server[p]] = TRUE]
                         ELSE new_plot_received
                    /\ frame' = [frame EXCEPT ![p].remote_plot_size = remote_plot_size,
                                              ![p].warned = @ \/ ~ssh]
               /\ Goto(p, "stop148")
          ELSE /\ UNCHANGED new_plot_received
               /\ frame' = [frame EXCEPT ![p].remote_plot_size = remote_plot_size]
               /\ Goto(p, "stop146")
  /\ UNCHANGED <<config, transfers>>
  /\ UNCHANGED <<nas_server, selection, obs, notified, status_file,
                 remote_checkfile, plot_dir, nc_stray>>

\* process_control('set_status', 'stop') called at line `at` (146 or 148),
\* lines 168 and 180-189: host_check and os.path.isfile.
set_status_stop(p, at, rm, next) ==
  /\ pc[p] = at
  /\ \E up \in BOOLEAN :
       IF ~up THEN offline(p)
       ELSE Goto(p, IF status_file THEN rm ELSE next) /\ UNCHANGED notified
  /\ UNCHANGED <<config, transfers>>
  /\ UNCHANGED <<frame, nas_server, selection, obs, files, nc_stray>>

\* process_control, line 182: os.remove(status_file).
os_remove_status_file(p, at, next) ==
  /\ pc[p] = at
  /\ IF status_file
     THEN status_file' = FALSE /\ Goto(p, next)
     ELSE UNCHANGED status_file /\ Raise(p, "FileNotFoundError")
  /\ UNCHANGED <<config, transfers>>
  /\ UNCHANGED <<frame, nas_server, selection, obs, notified, remote_checkfile,
                 new_plot_received, plot_dir, nc_stray>>

\* process_control, lines 183-186: ssh rm of the remote marker; a failure is logged.
ssh_rm(p, at, next) ==
  /\ pc[p] = at
  /\ \E ssh \in BOOLEAN :
       /\ remote_checkfile' = IF ssh THEN [remote_checkfile EXCEPT ![nas_server[p]] = FALSE]
                              ELSE remote_checkfile
       /\ frame' = [frame EXCEPT ![p].warned = @ \/ ~ssh]
  /\ Goto(p, next)
  /\ UNCHANGED <<config, transfers>>
  /\ UNCHANGED <<nas_server, selection, obs, notified, status_file,
                 new_plot_received, plot_dir, nc_stray>>

\* process_plot, line 146.
stop146(p) ==
  \/ set_status_stop(p, "stop146", "rm146", "retry")
  \/ os_remove_status_file(p, "rm146", "ssh_rm146")
  \/ ssh_rm(p, "ssh_rm146", "retry")

\* process_plot, line 147: main()  # Try Again
retry(p) ==
  /\ pc[p] = "retry"
  /\ Call(p, "stop148")
  /\ UNCHANGED <<config, transfers>>
  /\ UNCHANGED <<exc, nas_server, selection, obs, notified, files, nc_stray>>

\* line 148 without the release: process_plot goes straight on to line 149.
stop148_no_release(p) ==
  /\ pc[p] = "stop148"
  /\ Goto(p, "os_remove")
  /\ UNCHANGED <<config, transfers>>
  /\ UNCHANGED <<frame, nas_server, selection, obs, notified, files, nc_stray>>

\* process_plot, line 148.
stop148(p) ==
  \/ set_status_stop(p, "stop148", "rm148", "os_remove")
  \/ os_remove_status_file(p, "rm148", "ssh_rm148")
  \/ ssh_rm(p, "ssh_rm148", "os_remove")

\* process_plot, lines 149-150: os.remove(plot_path); then process_plot and
\* main return.
os_remove(p) ==
  /\ pc[p] = "os_remove"
  /\ IF frame[p].plot \in plot_dir
     THEN /\ plot_dir' = plot_dir \ {frame[p].plot}
          /\ Return(p)
          /\ UNCHANGED exc
     ELSE /\ Raise(p, "FileNotFoundError")
          /\ UNCHANGED <<plot_dir, frame>>
  /\ UNCHANGED <<config, transfers>>
  /\ UNCHANGED <<nas_server, selection, obs, notified, status_file,
                 remote_checkfile, new_plot_received, nc_stray>>

\* An nc process outside the script's control starts or ends on the producer.
EnvNc ==
  /\ nc_stray' = ~nc_stray
  /\ UNCHANGED <<config, transfers>>
  /\ UNCHANGED <<pc, stack, frame, exc, nas_server, selection, obs, notified, files>>

\* One statement of process p.
Step(p) ==
  \/ Start(p)
  \/ verify_glances_is_running(p)
  \/ system_checks(p)
  \/ remote_harvester_report(p)
  \/ select_next_nas(p)
  \/ check_status(p)
  \/ check_status_elif(p)
  \/ busy(p)
  \/ zombie_rm(p)
  \/ zombie_kill(p)
  \/ zombie_main(p)
  \/ get_list_of_plots(p)
  \/ set_status_start(p)
  \/ os_open(p)
  \/ ssh_touch(p)
  \/ send_plot(p)
  \/ sending(p)
  \/ kill_nc(p)
  \/ verify_plot_move(p)
  \/ stop146(p)
  \/ retry(p)
  \/ stop148(p)
  \/ os_remove(p)

Next == (\E p \in {1} : Step(p)) \/ EnvNc

Spec == Init /\ [][Next]_vars

\* One plot waits in the staging directory.
InitFair ==
  /\ InitShared
  /\ remote_harvesters = <<"h1", "h2">>
  /\ pc = [p \in Procs |-> IF p = 1 THEN "idle" ELSE "off"]
  /\ plot_dir = {"plot-a"}

\* The invocation is a running Python process (and the scheduler starts the
\* script again): a statement that can run does run.
SpecFair == InitFair /\ [][Next]_vars /\ WF_vars(\E p \in {1} : Step(p))

\* -------------------------------------------- two overlapping invocations
\* The scheduler starts the script a second time while the first invocation
\* runs; both see the same files.  Each invocation is followed up to its
\* first re-entry of main().
InitConc ==
  /\ InitShared
  /\ remote_harvesters = <<"h1", "h2">>
  /\ pc = [p \in Procs |-> "idle"]
  /\ plot_dir = {"plot-a"}

\* The scheduler starts the script once (line 475).
Invoke(p) ==
  /\ pc[p] = "idle"
  /\ Start(p)

StepConc(p) ==
  \/ Invoke(p)
  \/ verify_glances_is_running(p)
  \/ system_checks(p)
  \/ remote_harvester_report(p)
  \/ select_next_nas(p)
  \/ check_status(p)
  \/ check_status_elif(p)
  \/ busy(p)
  \/ zombie_rm(p)
  \/ zombie_kill(p)
  \/ get_list_of_plots(p)
  \/ set_status_start(p)
  \/ os_open(p)
  \/ ssh_touch(p)
  \/ send_plot(p)
  \/ sending(p)
  \/ kill_nc(p)
  \/ verify_plot_move(p)
  \/ stop146(p)
  \/ stop148(p)
  \/ os_remove(p)

NextConc == \E p \in Procs : StepConc(p)

SpecConc == InitConc /\ [][NextConc]_vars

\* ------------------------------------------------- harvester selection
\* get_next_nas on every configuration: remote_harvesters_check of one
\* invocation, over every list of harvesters, liveness and capacities.
InitNas ==
  /\ InitShared
  /\ remote_harvesters \in HarvesterLists
  /\ pc = [p \in Procs |-> IF p = 1 THEN "remote_harvesters_check" ELSE "off"]
  /\ plot_dir = {}

NextNas == \E p \in {1} : remote_harvester_report(p) \/ select_next_nas(p)

SpecNas == InitNas /\ [][NextNas]_vars

\* ================================================================ claims

\* process p removes plot f from plot_dir in this step (line 149).
Deletes(p, f) ==
  /\ pc[p] = "os_remove"
  /\ frame[p].plot = f
  /\ f \in plot_dir
  /\ f \notin plot_dir'

\* the job of the running frame is locked or later: the marker was just
\* created (line 175), the transfer program runs, cleanup, verifying,
\* releasing.  Line 133 is left out: process_plot is there also when the
\* marker was another job's.
LockedOrLater ==
  {"ssh_touch", "sending", "kill_nc", "verify_plot_move",
   "stop146", "rm146", "ssh_rm146", "stop148", "rm148", "ssh_rm148"}

\* C1: a source plot is deleted only by a job whose own verify_plot_move found
\* the remote size equal to the local size; after a mismatch the plot is
\* never deleted, also not after the retry's main() has returned.
C1_DeleteOnlyVerified ==
  [][\A p \in Procs, f \in Plots :
       Deletes(p, f) => frame[p].remote_plot_size = st_size(f)]_vars

\* C2: of two overlapping invocations at most one has a job that is locked or
\* later.
C2_AtMostOneLocked ==
  Cardinality({p \in Procs : pc[p] \in LockedOrLater}) <= 1

\* C3: when set_status start finds the local marker present, the acquisition
\* fails and process_plot does not go on to the transfer program.
C3_NoTransferWhenMarkerExists ==
  [][\A p \in Procs :
       (pc[p] = "set_status_start" /\ status_file /\ pc'[p] # pc[p])
         => pc'[p] \notin {"os_open", "ssh_touch", "send_plot", "sending"}]_vars

\* C4: after send_plot.sh returned non-zero the job records no success
\* (verify_plot_move does not report matching sizes for it) and its source
\* plot is not deleted.
C4_FailedTransferIsFatal ==
  [][\A p \in Procs :
       frame[p].rc = 1 =>
         /\ (pc[p] = "verify_plot_move" =>
               frame'[p].remote_plot_size # st_size(frame[p].plot))
         /\ ~Deletes(p, frame[p].plot)]_vars

\* C5: an invocation whose send_plot.sh returned non-zero ends with the
\* local marker and every remote marker absent.
C5_LockReleasedAfterFailedTransfer ==
  \A p \in Procs :
    (pc[p] \in {"done", "halted"} /\ frame[p].rc = 1) =>
      (~status_file /\ \A h \in Hosts : ~remote_checkfile[h])

\* C6: a size query that yields no size ends the invocation with every frame
\* of main() unwound and the plot in place, and a plot is only ever deleted
\* by a frame whose size query yielded a size.
C6_SourceKeptWhenSizeQueryFails ==
  [][\A p \in Procs :
       /\ (pc[p] = "verify_plot_move" /\ pc'[p] # pc[p]
             /\ frame'[p].remote_plot_size = -1)
            => (pc'[p] = "halted" /\ stack'[p] = <<>> /\ plot_dir' = plot_dir)
       /\ \A f \in Plots :
            Deletes(p, f) => frame[p].remote_plot_size \in RemoteSizes]_vars

\* C6's case: the query failed in a job that has its plot, which is still there.
C6_Witness ==
  /\ pc[1] = "halted"
  /\ exc[1] \in {"quit", "ValueError"}
  /\ frame[1].plot \in plot_dir
  /\ frame[1].remote_plot_size = -1

C8_OfflineIsFatal ==
  [][\A p \in Procs :
       (pc[p] # "halted" /\ exc'[p] = "exit_offline")
         => /\ pc'[p] = "halted"
            /\ stack'[p] = <<>>
            /\ <<"OFFLINE", nas_server[p]>> \in notified'[p]
            /\ nas_server'[p] = nas_server[p]
            /\ UNCHANGED <<status_file, remote_checkfile, new_plot_received, plot_dir>>]_vars

\* C8's case: the harvester went away between selection and lock
\* acquisition: the plot is chosen, no marker exists.
C8_Witness ==
  /\ pc[1] = "halted"
  /\ exc[1] = "exit_offline"
  /\ frame[1].plot # "none"
  /\ frame[1].rc = -1
  /\ ~status_file
  /\ notified[1] = {<<"OFFLINE", nas_server[1]>>}

\* C9: when no configured harvester is alive (get_next_nas has no server to
\* return) the invocation has notified the operator of it: notify() was
\* called with something else than system_checks' drive warning.
C9_NoHarvesterNotifies ==
  \A p \in Procs :
    exc[p] = "IndexError" =>
      notified[p] \ {<<"WARNING", "Directory Utilization">>} # {}

\* the total_plots_until_full that process p's report holds for host h.
CapOf(p, h) ==
  LET i == CHOOSE i \in DOMAIN servers[p] : servers[p][i].server = h
  IN servers[p][i].total_plots_until_full

\* the live hosts of process p's check_remote_harvesters.
Live(p) == {h \in Configured : harvesters_check[p][h]}

\* the place of host h in the configuration.
Place(h) == CHOOSE i \in DOMAIN remote_harvesters : remote_harvesters[i] = h

\* C10: with at least one live harvester get_next_nas returns a live one whose
\* total_plots_until_full is the maximum among the live ones, and among
\* those with the maximum the first of the configuration; it fails
\* (IndexError) only when none is alive.
C10_BestLiveHarvester ==
  \A p \in Procs :
    /\ pc[p] = "process_plot" =>
         /\ nas_server[p] \in Live(p)
         /\ \A h \in Live(p) :
              /\ CapOf(p, h) <= CapOf(p, nas_server[p])
              /\ CapOf(p, h) = CapOf(p, nas_server[p]) => Place(nas_server[p]) <= Place(h)
    /\ (pc[p] = "halted" /\ exc[p] = "IndexError") => Live(p) = {}

\* C10's case: three harvesters, one dead, the two live ones tie.
C10_Witness ==
  /\ pc[1] = "process_plot"
  /\ Len(remote_harvesters) = 3
  /\ Cardinality(Live(1)) = 2
  /\ \A h \in Live(1) : CapOf(1, h) = 90
  /\ ~harvesters_check[1][remote_harvesters[1]]
  /\ nas_server[1] = remote_harvesters[2]

\* C11: a failed fetch of a live harvester's export does not end the
\* invocation: remote_harvester_report always goes on to the ranking of
\* get_next_nas.
C11_FetchFailureAbsorbed ==
  [][\A p \in Procs :
       (pc[p] = "remote_harvesters_check" /\ pc'[p] # pc[p])
         => (pc'[p] = "get_next_nas" /\ exc'[p] = "none")]_vars

\* C12: within one invocation send_plot.sh is run at most once, the retry of
\* line 147 and the main() of line 205 included.
C12_AtMostOneTransfer ==
  \A p \in Procs : transfers[p] <= 1

\* the job of process p's running frame is on the success path: its size
\* query printed the local size and none of its ssh commands failed.
SuccessPath(p) ==
  /\ frame[p].plot # "none"
  /\ frame[p].remote_plot_size = st_size(frame[p].plot)
  /\ ~frame[p].warned

\* C13: on the success path the three effects come in this order: when the
\* lock is released new_plot_received has been touched and the plot is still
\* there, and when the plot is deleted both markers are gone; and the job gets
\* there: from line 148 it goes on until the plot is deleted, unless
\* host_check fails (exit of line 214).
C13_SuccessPathOrder ==
  /\ [][\A p \in Procs :
          /\ (pc[p] = "rm148" /\ SuccessPath(p) /\ ~status_file')
               => /\ new_plot_received[nas_server[p]]
                  /\ frame[p].plot \in plot_dir'
          /\ (Deletes(p, frame[p].plot) /\ SuccessPath(p))
               => /\ new_plot_received[nas_server[p]]
                  /\ ~status_file
                  /\ ~remote_checkfile[nas_server[p]]]_vars
  /\ \A f \in plot_to_process_list(Plots) :
       (pc[1] = "stop148" /\ frame[1].plot = f /\ SuccessPath(1))
         ~> (f \notin plot_dir \/ exc[1] = "exit_offline")

\* C13's case: the invocation is done, its one job matched, and the three
\* effects are there.
C13_Witness ==
  /\ pc[1] = "done"
  /\ SuccessPath(1)
  /\ transfers[1] = 1
  /\ frame[1].plot \notin plot_dir
  /\ new_plot_received[nas_server[1]]
  /\ ~status_file
  /\ ~remote_checkfile[nas_server[1]]

\* C14: within a job send_plot.sh is started only right after the lock
\* acquisition step (set_status start, lines 132 and 169-179); when it returns,
\* with either exit status, the remote kill of lines 137-141 is next; and the
\* size query of line 142 is reached only from that kill.
C14_SideEffectOrder ==
  [][\A p \in Procs :
       /\ (pc'[p] = "send_plot" /\ pc[p] # "send_plot")
            => pc[p] \in {"set_status_start", "ssh_touch"}
       /\ (pc'[p] = "sending" /\ pc[p] # "sending") => pc[p] = "send_plot"
       /\ (pc[p] = "sending" /\ pc'[p] # "sending")
            => (pc'[p] = "kill_nc" /\ frame'[p].rc \in {0, 1})
       /\ (pc'[p] = "verify_plot_move" /\ pc[p] # "verify_plot_move")
            => (pc[p] = "kill_nc" /\ frame[p].rc \in {0, 1})]_vars

\* C14's case: the transfer program failed, the remote kill was still done,
\* and the size query is next.
C14_Witness ==
  /\ pc[1] = "verify_plot_move"
  /\ frame[1].rc = 1
  /\ status_file
  /\ transfers[1] = 1

\* C15: when the force reset of a Zombie classification calls main() (line
\* 205), the local marker and the remote marker on the selected harvester
\* have been removed.
C15_ZombieResetRemovesBothMarkers ==
  \A p \in Procs :
    pc[p] = "zombie_main" =>
      (~status_file /\ ~remote_checkfile[nas_server[p]])

\* C16: what check_status makes of its readings: nc running at both
\* evaluations with tx 0 is Zombie; nc running with a throughput of 50 is
\* InProgress; nc not running is Clear, and check_transfer is then not
\* called (the `and` of lines 191 and 194 stops at its left operand).
C16_Classification ==
  \A p \in Procs :
    obs[p].cls # "none" =>
      /\ (obs[p].nc1 = 1 /\ obs[p].tx1 = 0 /\ obs[p].nc2 = 1 /\ obs[p].tx2 = 0)
           => obs[p].cls = "Zombie"
      /\ (obs[p].nc1 = 1 /\ obs[p].tx1 = 50 * tx_divisor)
           => (obs[p].cls = "InProgress" /\ obs[p].nc2 = -1)
      /\ (obs[p].nc1 = 0 /\ obs[p].nc2 = 0)
           => (obs[p].cls = "Clear" /\ obs[p].tx1 = -1 /\ obs[p].tx2 = -1)

\* C16's case: nc ran at both evaluations with tx 0, the state was classified
\* Zombie and the force reset is under way.
C16_Witness ==
  /\ obs[1].cls = "Zombie"
  /\ obs[1].tx1 = 0
  /\ obs[1].tx2 = 0
  /\ pc[1] = "zombie_kill"

\* C17: with nc running only a throughput strictly above the threshold of 5
\* is InProgress; a throughput of exactly 5 is not.
C17_ThresholdIsZombie ==
  \A p \in Procs :
    obs[p].cls = "InProgress" => obs[p].tx1 > min_speed * tx_divisor

\* process p is in the middle of an acquire (lines 174-179), a release
\* (lines 181-186) or a force reset (lines 195-204).
MidLockStep(p) ==
  pc[p] \in {"os_open", "ssh_touch", "rm146", "ssh_rm146", "rm148", "ssh_rm148",
             "zombie_rm", "zombie_kill"}

\* C18: whenever no invocation is in the middle of an acquire, a release or
\* a force reset, the local marker exists if and only if the remote marker
\* exists on the harvester the invocation selected.
C18_MarkersTogether ==
  (\A p \in Procs : ~MidLockStep(p)) =>
    \A p \in Procs :
      nas_server[p] # "none" => (status_file <=> remote_checkfile[nas_server[p]])

\* C19: set_status stop that finds no local marker, and set_status start that
\* finds the local marker, change neither the local nor a remote marker:
\* process_control returns at once (lines 187-189 and 171-173) without
\* os.open, os.remove or ssh.
C19_AcquireReleaseIdempotent ==
  [][\A p \in Procs :
       /\ (pc[p] \in {"stop146", "stop148"} /\ ~status_file /\ pc'[p] # pc[p])
            => /\ UNCHANGED <<status_file, remote_checkfile>>
               /\ pc'[p] \in {"retry", "os_remove", "halted"}
       /\ (pc[p] = "set_status_start" /\ status_file /\ pc'[p] # pc[p])
            => /\ UNCHANGED <<status_file, remote_checkfile>>
               /\ pc'[p] \notin {"os_open", "ssh_touch"}]_vars

\* C19's cases: line 148 found no marker after the retry of line 147 (line
\* 146 had removed it), and line 149 is next.
C19_Witness ==
  /\ pc[1] = "os_remove"
  /\ frame[1].remote_plot_size \in RemoteSizes
  /\ frame[1].remote_plot_size # st_size(frame[1].plot)
  /\ ~status_file
  /\ ~frame[1].warned

\* C20: check_status returns False (Clear) only when checkIfProcessRunning
\* found nc not running at one of its two evaluations (lines 191, 194): with
\* nc running at both the result is never Clear, whatever the two tx readings.
C20_ClearOnlyWhenNotRunning ==
  \A p \in Procs :
    obs[p].cls = "Clear" => (obs[p].nc1 = 0 \/ obs[p].nc2 = 0)

\* C21: once the force reset has issued its rm (lines 196-199) and the marker
\* is gone from the harvester the rm was sent to, no harvester holds a remote
\* marker: the rm went to the harvester of the stuck job.
C21_ResetTargetsStuckHarvester ==
  \A p \in Procs :
    (pc[p] \in {"zombie_kill", "zombie_main"} /\ ~remote_checkfile[nas_server[p]])
      => \A h \in Hosts : ~remote_checkfile[h]
====
